---- MODULE Spec2Model ----
(***************************************************************************)
(* The execution core of the UE LTE stack (srsue/src/stack/ue_stack_lte.cc)*)
(* as a state machine: producer threads (the PHY sync thread, the GW       *)
(* thread, foreign callers of the public interface) push tasks into the    *)
(* multi-queue pending_tasks, and the single "STACK" thread pops and runs  *)
(* them in run_thread().                                                   *)
(***************************************************************************)
EXTENDS Integers, Sequences, FiniteSets, TLC

(***************************************************************************)
(* Bounds of the model.                                                    *)
(***************************************************************************)
\* capacity of every queue of pending_tasks: pending_tasks(512), scaled down
MaxQueue == 2
\* concurrency specification (Spec): calls of the sync thread, SDUs of the GW
\* thread, public operations each foreign caller starts
MaxSyncCalls == 2
MaxSdus == 1
MaxCallerOps == 1
\* sync specification (SpecSync): calls of the sync thread
MaxSyncBurst == 3
\* tick specification (SpecTick): run_tti calls and the largest tti_jump
MaxTickCalls == 3
MaxJump == 3
\* lifecycle specification (SpecStop): operations each foreign caller starts
MaxStopOps == 2
\* uplink specification (SpecGw): SDUs of the GW thread
MaxGwBurst == 3
\* poll iterations of switch_off() in Spec (timeout = 5000 in the code, scaled down)
PollBound == 1
\* get_metrics() calls per caller in SpecMetrics
MaxMetricsOps == 2
\* interface calls per caller in SpecInit
MaxInitOps == 2
\* switch_off() calls in SpecDetach
MaxDetachOps == 1
\* write_sdu() calls and in_sync() calls in SpecTasks
MaxTaskSdus == 2
MaxTaskSyncs == 1
\* sync calls, write_sdu() calls and switch_on() calls in SpecFair
MaxFairSyncs == 3
MaxFairSdus == 3
MaxFairOps == 2
\* background requests in SpecBg
MaxBgTasks == 2

(***************************************************************************)
(* Program constants.                                                      *)
(***************************************************************************)
\* queue identities, in the order of the add_queue() calls of the constructor
ue_queue_id == 0
sync_queue_id == 1
gw_queue_id == 2
mac_queue_id == 3
background_queue_id == 4
NofQueues == 5

\* the TTI counter wraps at 10240 (TTI_SUB of srslte/common/common.h)
TTI_WRAP == 10240
\* 2^32 modulo the wrap: what a uint32_t underflow adds before the % 10240
UInt32Rem == ((65536 % TTI_WRAP) * (65536 % TTI_WRAP)) % TTI_WRAP

\* the executor thread, thread("STACK")
StackThread == "STACK"
SyncThread == "SYNC"
GwThread == "GW"
Callers == {"c1", "c2"}

NoTask == [kind |-> "none"]

\* TTI_SUB(a, b) ((((a) + 10240) - (b)) % 10240) on uint32_t operands
TTI_SUB(a, b) ==
  LET d == (a + TTI_WRAP) - b
  IN IF d >= 0 THEN d % TTI_WRAP ELSE (d + UInt32Rem) % TTI_WRAP

VARIABLES
  initState,        \* "uninit" | "failed" | "ok": outcome of init()
  args,             \* args.pcap.enable, args.pcap.nas_enable
  running,          \* ue_stack_lte::running
  queues,           \* pending_tasks: queue id q is queues[q + 1]
  spin_idx,         \* round-robin position of pending_tasks.wait_pop
  epc,              \* the STACK thread: "off" | "loop" | "task" | "exited"
  cur,              \* the task the STACK thread popped and is running
  step,             \* statement of stop_impl() the STACK thread is at
  active,           \* <<thread, task kind>> of every task in execution
  offThreadAccess,  \* <<thread, layer>>: layer calls made outside the STACK thread
  current_tti,      \* ue_stack_lte::current_tti
  hooks,            \* log of the hook calls made by run_tti_impl()
  teardown,         \* log of the statements stop_impl() has executed
  stopImplRuns,     \* number of times stop_impl() was entered
  pending_stack_metrics, \* the blocking queue get_metrics() reads its result from
  spc,              \* the sync thread: "idle" | "pushing"
  syncCalled,       \* the sync thread's calls, in call order
  syncDone,         \* the sync tasks the STACK thread has run, in run order
  sdus,             \* the SDUs given to write_sdu(), with what became of each
  cpc,              \* per caller: where it is in the operation it runs
  ops,              \* per caller: operations started
  cnt,              \* per caller: switch_off()'s local cnt
  ret,              \* per caller: what its last completed operation returned
  stopRec,          \* per caller: its last stop() call
  metricsGot,       \* per caller: the snapshot its last get_metrics() returned
  bg                \* the background requests (cell search, cell select), in call order

vars == <<initState, args, running, queues, spin_idx, epc, cur, step, active,
          offThreadAccess, current_tti, hooks, teardown, stopImplRuns,
          pending_stack_metrics, spc, syncCalled, syncDone, sdus, cpc, ops, cnt,
          ret, stopRec, metricsGot, bg>>

stackVars == <<epc, cur, step, active, current_tti, hooks, teardown, stopImplRuns,
               pending_stack_metrics, syncDone>>
syncVars == <<spc, syncCalled>>
callerVars == <<cpc, ops, cnt, ret, stopRec, metricsGot>>
lifeVars == <<initState, args>>

NoMetrics == [by |-> "none"]

NoStop == [called |-> FALSE, op |-> 0, initOk |-> FALSE, sawRunning |-> FALSE,
           pushed |-> FALSE, returned |-> FALSE]

(***************************************************************************)
(* The multi-queue task dispatcher (srslte/common/multiqueue.h).           *)
(***************************************************************************)
Queue(q) == queues[q + 1]

\* try_push(q, task): fails, leaving the queue as it is, when the queue is full
HasSpace(q) == Len(Queue(q)) < MaxQueue

Pushed(q, task) == [queues EXCEPT ![q + 1] = Append(@, task)]

\* mutant of TryPushed: the capacity is not checked
TryPushedUnbounded(q, task) == Pushed(q, task)

TryPushed(q, task) == IF HasSpace(q) THEN Pushed(q, task) ELSE queues

\* wait_pop(): round-robin over the queues, starting after the last one served
RoundRobin(k) == (spin_idx + k) % NofQueues

SomeTask == \E q \in 0..(NofQueues - 1) : Queue(q) # <<>>

\* mutant of PopQueue: strict priority, the lowest non-empty queue first
PopQueueLowestFirst ==
  CHOOSE q \in 0..(NofQueues - 1) :
    /\ Queue(q) # <<>>
    /\ \A r \in 0..(NofQueues - 1) : Queue(r) # <<>> => q <= r

PopQueue ==
  LET ks == {k \in 1..NofQueues : Queue(RoundRobin(k)) # <<>>}
      k0 == CHOOSE k \in ks : \A j \in ks : k <= j
  IN RoundRobin(k0)

PoppedTask(q) == Head(Queue(q))

Popped(q) == [queues EXCEPT ![q + 1] = Tail(@)]

(***************************************************************************)
(* Layer calls: a call made on a thread other than the STACK thread after  *)
(* init() started it is recorded.                                          *)
(***************************************************************************)
Touch(thread, layers) ==
  IF thread = StackThread \/ epc = "off"
  THEN offThreadAccess
  ELSE offThreadAccess \cup {<<thread, l>> : l \in layers}

(***************************************************************************)
(* The state after construction.                                          *)
(***************************************************************************)
Init ==
  /\ initState = "uninit"
  /\ args = [pcap |-> FALSE, nas_pcap |-> FALSE]
  /\ running = FALSE
  /\ queues = [q \in 1..NofQueues |-> <<>>]
  /\ spin_idx = 0
  /\ epc = "off"
  /\ cur = NoTask
  /\ step = 0
  /\ active = {}
  /\ offThreadAccess = {}
  /\ current_tti = 0
  /\ hooks = <<>>
  /\ teardown = <<>>
  /\ stopImplRuns = 0
  /\ pending_stack_metrics = <<>>
  /\ spc = "idle"
  /\ syncCalled = <<>>
  /\ syncDone = <<>>
  /\ sdus = <<>>
  /\ cpc = [c \in Callers |-> "idle"]
  /\ ops = [c \in Callers |-> 0]
  /\ cnt = [c \in Callers |-> 0]
  /\ ret = [c \in Callers |-> "none"]
  /\ stopRec = [c \in Callers |-> NoStop]
  /\ metricsGot = [c \in Callers |-> NoMetrics]
  /\ bg = <<>>

\* mutant of StackInit: the return on the USIM failure forgotten
StackInitIgnoresUsim(argsSet) ==
  /\ initState = "uninit"
  /\ \E a \in argsSet, usimOk \in BOOLEAN :
       /\ args' = a
       /\ IF usimOk
          THEN /\ initState' = "ok"
               /\ running' = TRUE
               /\ epc' = "loop"
          ELSE /\ initState' = "failed"
               /\ running' = TRUE
               /\ epc' = "loop"
  /\ UNCHANGED <<queues, spin_idx, cur, step, active, offThreadAccess, current_tti,
                 hooks, teardown, stopImplRuns, pending_stack_metrics, syncDone,
                 sdus>>
  /\ UNCHANGED <<bg, syncVars, callerVars>>

(***************************************************************************)
(* init(): USIM first, then the layers, then the STACK thread.             *)
(***************************************************************************)
StackInit(argsSet) ==
  /\ initState = "uninit"
  /\ \E a \in argsSet, usimOk \in BOOLEAN :
       /\ args' = a
       /\ IF usimOk
          THEN /\ initState' = "ok"
               /\ running' = TRUE
               /\ epc' = "loop"
          ELSE /\ initState' = "failed"
               /\ UNCHANGED <<running, epc>>
  /\ UNCHANGED <<queues, spin_idx, cur, step, active, offThreadAccess, current_tti,
                 hooks, teardown, stopImplRuns, pending_stack_metrics, syncDone,
                 sdus>>
  /\ UNCHANGED <<bg, syncVars, callerVars>>

(***************************************************************************)
(* run_tti_impl(tti, tti_jump): the hook calls it makes, in order.         *)
(***************************************************************************)
MacRunTti(tti) == [hook |-> "mac.run_tti", tti |-> tti]
TimersStepAll == [hook |-> "timers.step_all"]
RrcRunTti == [hook |-> "rrc.run_tti"]
NasRunTti == [hook |-> "nas.run_tti"]

\* mutants of NextTti: the -1 forgotten; the sub-ticks counted down from tti
NextTtiOffByOne(tti, tti_jump, i) == TTI_SUB(tti, (tti_jump - i))
NextTtiDescending(tti, tti_jump, i) == TTI_SUB(tti, i)

\* uint32_t next_tti = TTI_SUB(tti, (tti_jump - i - 1))
NextTti(tti, tti_jump, i) == TTI_SUB(tti, (tti_jump - i - 1))

\* for (uint32_t i = 0; i < tti_jump; ++i) { mac.run_tti(next_tti); timers.step_all(); }
RECURSIVE SubTickLoop(_, _, _)
SubTickLoop(tti, tti_jump, i) ==
  IF i < tti_jump
  THEN <<MacRunTti(NextTti(tti, tti_jump, i)), TimersStepAll>>
         \o SubTickLoop(tti, tti_jump, i + 1)
  ELSE <<>>

RunTtiImpl(tti, tti_jump) ==
  SubTickLoop(tti, tti_jump, 0) \o <<RrcRunTti, NasRunTti>>

(***************************************************************************)
(* run_thread(): while (running) { wait_pop(&task); task(); }              *)
(***************************************************************************)
\* mutant of RunThreadPop: the task is run and left in its queue
RunThreadPopPeek ==
  /\ epc = "loop"
  /\ running
  /\ SomeTask
  /\ LET q == PopQueue IN
       /\ cur' = PoppedTask(q)
       /\ queues' = queues
       /\ spin_idx' = q
       /\ active' = active \cup {<<StackThread, PoppedTask(q).kind>>}
  /\ epc' = "task"
  /\ step' = 0
  /\ UNCHANGED <<running, offThreadAccess, current_tti, hooks, teardown, stopImplRuns,
                 pending_stack_metrics, syncDone, sdus>>
  /\ UNCHANGED <<bg, lifeVars, syncVars, callerVars>>

\* run_thread(): while (running) { wait_pop(&task); task(); }
RunThreadPop ==
  /\ epc = "loop"
  /\ running
  /\ SomeTask
  /\ LET q == PopQueue IN
       /\ cur' = PoppedTask(q)
       /\ queues' = Popped(q)
       /\ spin_idx' = q
       /\ active' = active \cup {<<StackThread, PoppedTask(q).kind>>}
  /\ epc' = "task"
  /\ step' = 0
  /\ UNCHANGED <<running, offThreadAccess, current_tti, hooks, teardown, stopImplRuns,
                 pending_stack_metrics, syncDone, sdus>>
  /\ UNCHANGED <<bg, lifeVars, syncVars, callerVars>>

RunThreadExit ==
  /\ epc = "loop"
  /\ ~running
  /\ epc' = "exited"
  /\ UNCHANGED <<running, queues, spin_idx, cur, step, active, offThreadAccess,
                 current_tti, hooks, teardown, stopImplRuns, pending_stack_metrics,
                 syncDone, sdus>>
  /\ UNCHANGED <<bg, lifeVars, syncVars, callerVars>>

\* the task returns: back to the loop condition
TaskReturns ==
  /\ epc' = "loop"
  /\ cur' = NoTask
  /\ step' = 0
  /\ active' = active \ {<<StackThread, cur.kind>>}

\* [this, tti, tti_jump]() { run_tti_impl(tti, tti_jump); }
ExecRunTti ==
  /\ epc = "task"
  /\ cur.kind = "run_tti_impl"
  /\ current_tti' = cur.tti
  /\ hooks' = hooks \o RunTtiImpl(cur.tti, cur.tti_jump)
  /\ syncDone' = Append(syncDone, cur)
  /\ offThreadAccess' = Touch(StackThread, {"mac", "rrc", "nas"})
  /\ TaskReturns
  /\ UNCHANGED <<running, queues, spin_idx, teardown, stopImplRuns,
                 pending_stack_metrics, sdus>>
  /\ UNCHANGED <<bg, lifeVars, syncVars, callerVars>>

\* [this]() { rrc.in_sync(); } and [this]() { rrc.out_of_sync(); }
ExecSyncEvent ==
  /\ epc = "task"
  /\ cur.kind \in {"rrc.in_sync", "rrc.out_of_sync"}
  /\ syncDone' = Append(syncDone, cur)
  /\ offThreadAccess' = Touch(StackThread, {"rrc"})
  /\ TaskReturns
  /\ UNCHANGED <<running, queues, spin_idx, current_tti, hooks, teardown,
                 stopImplRuns, pending_stack_metrics, sdus>>
  /\ UNCHANGED <<bg, lifeVars, syncVars, callerVars>>

(***************************************************************************)
(* stop_impl(): running = false, then the layers, then the pcap files.     *)
(***************************************************************************)
\* mutant of StopImplStmts: the transport layers stopped first
StopImplStmtsTransportFirst(a) ==
  <<"rlc.stop", "pdcp.stop", "mac.stop", "usim.stop", "nas.stop", "rrc.stop">>
    \o (IF a.pcap THEN <<"mac_pcap.close">> ELSE <<>>)
    \o (IF a.nas_pcap THEN <<"nas_pcap.close">> ELSE <<>>)

StopImplStmts(a) ==
  <<"usim.stop", "nas.stop", "rrc.stop", "rlc.stop", "pdcp.stop", "mac.stop">>
    \o (IF a.pcap THEN <<"mac_pcap.close">> ELSE <<>>)
    \o (IF a.nas_pcap THEN <<"nas_pcap.close">> ELSE <<>>)

ExecStopImplBegin ==
  /\ epc = "task"
  /\ cur.kind = "stop_impl"
  /\ step = 0
  /\ running' = FALSE
  /\ stopImplRuns' = stopImplRuns + 1
  /\ step' = 1
  /\ UNCHANGED <<queues, spin_idx, epc, cur, active, offThreadAccess, current_tti,
                 hooks, teardown, pending_stack_metrics, syncDone, sdus>>
  /\ UNCHANGED <<bg, lifeVars, syncVars, callerVars>>

ExecStopImplStmt ==
  /\ epc = "task"
  /\ cur.kind = "stop_impl"
  /\ step \in 1..Len(StopImplStmts(args))
  /\ teardown' = Append(teardown, StopImplStmts(args)[step])
  /\ offThreadAccess' = Touch(StackThread, {"usim", "nas", "rrc", "rlc", "pdcp", "mac"})
  /\ IF step = Len(StopImplStmts(args))
     THEN TaskReturns
     ELSE /\ step' = step + 1
          /\ UNCHANGED <<epc, cur, active>>
  /\ UNCHANGED <<running, queues, spin_idx, current_tti, hooks, stopImplRuns,
                 pending_stack_metrics, syncDone, sdus>>
  /\ UNCHANGED <<bg, lifeVars, syncVars, callerVars>>

(***************************************************************************)
(* The sync thread: in_sync(), out_of_sync(), run_tti(tti, tti_jump), each *)
(* a blocking pending_tasks.push(sync_queue_id, ...).                      *)
(***************************************************************************)
\* mutant of SyncQueue: the sync events pushed to the foreign-request queue
SyncQueueSplit(kind) == IF kind = "run_tti_impl" THEN sync_queue_id ELSE ue_queue_id

\* the queue identity each sync call pushes to
SyncQueue(kind) == sync_queue_id

\* the PHY sync thread runs once init() has succeeded
SyncCall(task, maxCalls) ==
  /\ initState = "ok"
  /\ spc = "idle"
  /\ Len(syncCalled) < maxCalls
  /\ syncCalled' = Append(syncCalled,
                          [task |-> task, live |-> running /\ epc \in {"loop", "task"}])
  /\ spc' = "pushing"
  /\ UNCHANGED <<running, queues, spin_idx, offThreadAccess, sdus>>
  /\ UNCHANGED <<bg, lifeVars, stackVars, callerVars>>

InSync(maxCalls) ==
  SyncCall([kind |-> "rrc.in_sync", id |-> Len(syncCalled) + 1], maxCalls)

OutOfSync(maxCalls) ==
  SyncCall([kind |-> "rrc.out_of_sync", id |-> Len(syncCalled) + 1], maxCalls)

RunTti(ttis, jumps, maxCalls) ==
  \E tti \in ttis, tti_jump \in jumps :
    SyncCall([kind |-> "run_tti_impl", id |-> Len(syncCalled) + 1,
              tti |-> tti, tti_jump |-> tti_jump], maxCalls)

SyncPending == syncCalled[Len(syncCalled)].task

\* mutant of SyncPush: try_push() in place of push(), the task lost when full
SyncPushDropping ==
  /\ spc = "pushing"
  /\ queues' = TryPushed(SyncQueue(SyncPending.kind), SyncPending)
  /\ spc' = "idle"
  /\ UNCHANGED <<running, spin_idx, offThreadAccess, sdus, syncCalled>>
  /\ UNCHANGED <<bg, lifeVars, stackVars, callerVars>>

\* push(): waits while the queue is full
SyncPush ==
  /\ spc = "pushing"
  /\ HasSpace(SyncQueue(SyncPending.kind))
  /\ queues' = Pushed(SyncQueue(SyncPending.kind), SyncPending)
  /\ spc' = "idle"
  /\ UNCHANGED <<running, spin_idx, offThreadAccess, sdus, syncCalled>>
  /\ UNCHANGED <<bg, lifeVars, stackVars, callerVars>>

(***************************************************************************)
(* The GW thread: write_sdu(lcid, sdu, blocking).                          *)
(***************************************************************************)
\* lcid values: one in Spec, one SRB and two DRBs in SpecGw
LcidSet == {3}
GwLcids == {1, 3, 4}

\* the GW thread runs once init() has succeeded
WriteSdu(lcid, blocking, maxSdus) ==
  /\ initState = "ok"
  /\ Len(sdus) < maxSdus
  /\ LET task == [kind |-> "pdcp.write_sdu", id |-> Len(sdus) + 1,
                  lcid |-> lcid, blocking |-> blocking]
         \* bool ret = pending_tasks.try_push(gw_queue_id, ...).first
         pushed == HasSpace(gw_queue_id)
     IN /\ queues' = TryPushed(gw_queue_id, task)
        \* if (not ret) pdcp_log->warning("GW SDU with lcid=%d was discarded.")
        /\ sdus' = Append(sdus, [lcid |-> lcid, blocking |-> blocking,
                                 state |-> IF pushed THEN "queued" ELSE "discarded"])
  /\ UNCHANGED <<running, spin_idx, offThreadAccess>>
  /\ UNCHANGED <<bg, lifeVars, stackVars, syncVars, callerVars>>

\* the task of write_sdu(): pdcp.write_sdu(lcid, std::move(sdu), blocking)
ExecWriteSdu ==
  /\ epc = "task"
  /\ cur.kind = "pdcp.write_sdu"
  /\ sdus' = [sdus EXCEPT ![cur.id].state = "forwarded"]
  /\ offThreadAccess' = Touch(StackThread, {"pdcp"})
  /\ TaskReturns
  /\ UNCHANGED <<running, queues, spin_idx, current_tti, hooks, teardown,
                 stopImplRuns, pending_stack_metrics, syncDone>>
  /\ UNCHANGED <<bg, lifeVars, syncVars, callerVars>>

(***************************************************************************)
(* Foreign callers of the public interface.                                *)
(***************************************************************************)
Starts(c, maxOps) ==
  /\ cpc[c] = "idle"
  /\ ops[c] < maxOps
  /\ ops' = [ops EXCEPT ![c] = @ + 1]

\* mutant of StopSeesRunning: stop() without its if (running)
StopUnguarded == TRUE

\* stop(): if (running); running is a plain member read here on the caller's
\* thread, so the read is a step of its own and sees whichever value is current
StopSeesRunning == running

StopCall(c, maxOps) ==
  /\ Starts(c, maxOps)
  /\ stopRec' = [stopRec EXCEPT ![c] =
                   [called |-> TRUE, op |-> ops[c] + 1, initOk |-> initState = "ok",
                    sawRunning |-> running, pushed |-> FALSE,
                    returned |-> ~StopSeesRunning]]
  /\ cpc' = [cpc EXCEPT ![c] = IF StopSeesRunning THEN "stop_push" ELSE "idle"]
  /\ ret' = [ret EXCEPT ![c] = "none"]
  /\ UNCHANGED <<running, queues, spin_idx, offThreadAccess, sdus, cnt, metricsGot>>
  /\ UNCHANGED <<bg, lifeVars, stackVars, syncVars>>

\* mutant of StopPush: stop() calling stop_impl() itself, on the caller's thread
StopPushInline(c) ==
  /\ cpc[c] = "stop_push"
  /\ active' = active \cup {<<c, "stop_impl">>}
  /\ running' = FALSE
  /\ stopImplRuns' = stopImplRuns + 1
  /\ cpc' = [cpc EXCEPT ![c] = "stop_join"]
  /\ UNCHANGED <<queues, spin_idx, offThreadAccess, sdus, ops, cnt, ret, stopRec,
                 metricsGot>>
  /\ UNCHANGED <<epc, cur, step, current_tti, hooks, teardown, pending_stack_metrics,
                 syncDone>>
  /\ UNCHANGED <<bg, lifeVars, syncVars>>

\* pending_tasks.try_push(ue_queue_id, [this]() { stop_impl(); });
StopPush(c) ==
  /\ cpc[c] = "stop_push"
  /\ queues' = TryPushed(ue_queue_id, [kind |-> "stop_impl", from |-> c, op |-> ops[c]])
  /\ stopRec' = [stopRec EXCEPT ![c].pushed = HasSpace(ue_queue_id)]
  /\ cpc' = [cpc EXCEPT ![c] = "stop_join"]
  /\ UNCHANGED <<running, spin_idx, offThreadAccess, sdus, ops, cnt, ret, metricsGot>>
  /\ UNCHANGED <<bg, lifeVars, stackVars, syncVars>>

\* wait_thread_finish(): joins the STACK thread
StopJoin(c) ==
  /\ cpc[c] = "stop_join"
  /\ epc = "exited"
  /\ stopRec' = [stopRec EXCEPT ![c].returned = TRUE]
  /\ cpc' = [cpc EXCEPT ![c] = "idle"]
  /\ UNCHANGED <<running, queues, spin_idx, offThreadAccess, sdus, ops, cnt, ret,
                 metricsGot>>
  /\ UNCHANGED <<bg, lifeVars, stackVars, syncVars>>

\* switch_on(): if (running) { try_push(...); return true; } return false;
SwitchOnCall(c, maxOps) ==
  /\ Starts(c, maxOps)
  /\ IF running
     THEN /\ cpc' = [cpc EXCEPT ![c] = "switch_on_push"]
          /\ ret' = [ret EXCEPT ![c] = "none"]
     ELSE /\ cpc' = cpc
          /\ ret' = [ret EXCEPT ![c] = "false"]
  /\ UNCHANGED <<running, queues, spin_idx, offThreadAccess, sdus, cnt, stopRec,
                 metricsGot>>
  /\ UNCHANGED <<bg, lifeVars, stackVars, syncVars>>

SwitchOnPush(c) ==
  /\ cpc[c] = "switch_on_push"
  /\ queues' = TryPushed(ue_queue_id, [kind |-> "nas.start_attach_proc", from |-> c])
  /\ cpc' = [cpc EXCEPT ![c] = "idle"]
  /\ ret' = [ret EXCEPT ![c] = "true"]
  /\ UNCHANGED <<running, spin_idx, offThreadAccess, sdus, ops, cnt, stopRec,
                 metricsGot>>
  /\ UNCHANGED <<bg, lifeVars, stackVars, syncVars>>

\* the task of switch_on(): nas.start_attach_proc(nullptr, mo_sig)
ExecAttach ==
  /\ epc = "task"
  /\ cur.kind = "nas.start_attach_proc"
  /\ offThreadAccess' = Touch(StackThread, {"nas"})
  /\ TaskReturns
  /\ UNCHANGED <<running, queues, spin_idx, current_tti, hooks, teardown,
                 stopImplRuns, pending_stack_metrics, syncDone, sdus>>
  /\ UNCHANGED <<bg, lifeVars, syncVars, callerVars>>

\* switch_off(): nas.detach_request(true); int cnt = 0, timeout = 5000;
SwitchOff(c, maxOps) ==
  /\ Starts(c, maxOps)
  /\ offThreadAccess' = Touch(c, {"nas"})
  /\ cnt' = [cnt EXCEPT ![c] = 0]
  /\ ret' = [ret EXCEPT ![c] = "none"]
  /\ cpc' = [cpc EXCEPT ![c] = "switch_off_poll"]
  /\ UNCHANGED <<running, queues, spin_idx, sdus, stopRec, metricsGot>>
  /\ UNCHANGED <<bg, lifeVars, stackVars, syncVars>>

\* while (rlc.has_data(RB_ID_SRB1) && ++cnt <= timeout) { usleep(1000); }
SwitchOffPoll(c, timeout) ==
  /\ cpc[c] = "switch_off_poll"
  /\ offThreadAccess' = Touch(c, {"rlc"})
  /\ \E has_data \in BOOLEAN :
       IF has_data
       THEN /\ cnt' = [cnt EXCEPT ![c] = @ + 1]
            /\ cpc' = [cpc EXCEPT ![c] = IF cnt[c] + 1 <= timeout
                                         THEN "switch_off_poll"
                                         ELSE "switch_off_check"]
       ELSE /\ cnt' = cnt
            /\ cpc' = [cpc EXCEPT ![c] = "switch_off_check"]
  /\ UNCHANGED <<running, queues, spin_idx, sdus, ops, ret, stopRec, metricsGot>>
  /\ UNCHANGED <<bg, lifeVars, stackVars, syncVars>>

\* bool detach_sent = true; if (rlc.has_data(RB_ID_SRB1)) { detach_sent = false; }
SwitchOffCheck(c) ==
  /\ cpc[c] = "switch_off_check"
  /\ offThreadAccess' = Touch(c, {"rlc"})
  /\ \E has_data \in BOOLEAN :
       ret' = [ret EXCEPT ![c] = IF has_data THEN "false" ELSE "true"]
  /\ cpc' = [cpc EXCEPT ![c] = "idle"]
  /\ UNCHANGED <<running, queues, spin_idx, sdus, ops, cnt, stopRec, metricsGot>>
  /\ UNCHANGED <<bg, lifeVars, stackVars, syncVars>>

\* disable_data(): return nas.detach_request(false);
DisableData(c, maxOps) ==
  /\ Starts(c, maxOps)
  /\ offThreadAccess' = Touch(c, {"nas"})
  /\ \E sent \in {"true", "false"} : ret' = [ret EXCEPT ![c] = sent]
  /\ UNCHANGED <<running, queues, spin_idx, sdus, cpc, cnt, stopRec, metricsGot>>
  /\ UNCHANGED <<bg, lifeVars, stackVars, syncVars>>

\* get_metrics(): try_push(ue_queue_id, <query task>); then wait_pop() on the slot
GetMetrics(c, maxOps) ==
  /\ Starts(c, maxOps)
  /\ queues' = TryPushed(ue_queue_id, [kind |-> "get_metrics", from |-> c,
                                        op |-> ops[c] + 1])
  /\ cpc' = [cpc EXCEPT ![c] = "metrics_wait"]
  /\ ret' = [ret EXCEPT ![c] = "none"]
  /\ UNCHANGED <<running, spin_idx, offThreadAccess, sdus, cnt, stopRec, metricsGot>>
  /\ UNCHANGED <<bg, lifeVars, stackVars, syncVars>>

\* *metrics = pending_stack_metrics.wait_pop();
GetMetricsWait(c) ==
  /\ cpc[c] = "metrics_wait"
  /\ pending_stack_metrics # <<>>
  /\ metricsGot' = [metricsGot EXCEPT ![c] = Head(pending_stack_metrics)]
  /\ pending_stack_metrics' = Tail(pending_stack_metrics)
  /\ cpc' = [cpc EXCEPT ![c] = "idle"]
  /\ UNCHANGED <<running, queues, spin_idx, offThreadAccess, sdus, ops, cnt, ret,
                 stopRec>>
  /\ UNCHANGED <<epc, cur, step, active, current_tti, hooks, teardown, stopImplRuns,
                 syncDone>>
  /\ UNCHANGED <<bg, lifeVars, syncVars>>

\* mutant of ExecGetMetrics: the query task computes the metrics and pushes nothing
ExecGetMetricsNoPush ==
  /\ epc = "task"
  /\ cur.kind = "get_metrics"
  /\ offThreadAccess' = Touch(StackThread, {"mac", "rlc", "nas", "rrc"})
  /\ TaskReturns
  /\ UNCHANGED <<running, queues, spin_idx, current_tti, hooks, teardown,
                 stopImplRuns, pending_stack_metrics, syncDone, sdus>>
  /\ UNCHANGED <<bg, lifeVars, syncVars, callerVars>>

\* the query task: the four layers' get_metrics, then pending_stack_metrics.push
ExecGetMetrics ==
  /\ epc = "task"
  /\ cur.kind = "get_metrics"
  /\ pending_stack_metrics' = Append(pending_stack_metrics,
                                      [by |-> cur.from, op |-> cur.op])
  /\ offThreadAccess' = Touch(StackThread, {"mac", "rlc", "nas", "rrc"})
  /\ TaskReturns
  /\ UNCHANGED <<running, queues, spin_idx, current_tti, hooks, teardown,
                 stopImplRuns, syncDone, sdus>>
  /\ UNCHANGED <<bg, lifeVars, syncVars, callerVars>>

(***************************************************************************)
(* Background tasks: start_cell_search() and start_cell_select(), run by   *)
(* the worker pool background_tasks(2).                                    *)
(***************************************************************************)
\* background_tasks(2): the two worker threads of the pool
BgThreads == {"BG1", "BG2"}

\* what phy->cell_search() and phy->cell_select() return
CellSearchRets == {"CELL_FOUND", "CELL_NOT_FOUND", "ERROR"}
CellSelectRets == {"true", "false"}
PhyRets(kind) == IF kind = "cell_search" THEN CellSearchRets ELSE CellSelectRets

\* a request as push_task() leaves it: in the pool, no worker on it yet
NewBg(kind) == [kind |-> kind, state |-> "pooled", worker |-> "none",
                phyOn |-> "none", ret |-> "none", cbRuns |-> 0, cbOn |-> "none",
                cbRet |-> "none", cbQueue |-> NofQueues]

\* RRC, inside the task the STACK thread is running, calls start_cell_search()
\* or start_cell_select(): background_tasks.push_task([this](uint32_t) {...})
StartCell(kind, maxBg) ==
  /\ epc = "task"
  /\ Len(bg) < maxBg
  /\ bg' = Append(bg, NewBg(kind))
  /\ UNCHANGED <<running, queues, spin_idx, offThreadAccess, sdus>>
  /\ UNCHANGED <<lifeVars, stackVars, syncVars, callerVars>>

BgBusy(w) == \E i \in 1..Len(bg) : bg[i].worker = w /\ bg[i].state \in {"phy", "pushing"}

\* a free worker takes a request and enters phy->cell_search() / cell_select()
BgPhyCall(w) ==
  /\ ~BgBusy(w)
  /\ \E i \in 1..Len(bg) :
       /\ bg[i].state = "pooled"
       /\ bg' = [bg EXCEPT ![i].state = "phy", ![i].worker = w, ![i].phyOn = w]
  /\ UNCHANGED <<running, queues, spin_idx, offThreadAccess, sdus>>
  /\ UNCHANGED <<lifeVars, stackVars, syncVars, callerVars>>

\* ret = phy->cell_search(&found_cell); bool ret = phy->cell_select(phy_cell);
BgPhyReturns(w) ==
  /\ \E i \in 1..Len(bg) :
       /\ bg[i].state = "phy"
       /\ bg[i].worker = w
       /\ \E r \in PhyRets(bg[i].kind) :
            bg' = [bg EXCEPT ![i].state = "pushing", ![i].ret = r]
  /\ UNCHANGED <<running, queues, spin_idx, offThreadAccess, sdus>>
  /\ UNCHANGED <<lifeVars, stackVars, syncVars, callerVars>>

\* the follow-up task: rrc.cell_search_completed(ret, found_cell) or
\* rrc.cell_select_completed(ret), with the result captured by value
CompletionTask(i) ==
  [kind |-> IF bg[i].kind = "cell_search" THEN "rrc.cell_search_completed"
                                          ELSE "rrc.cell_select_completed",
   id |-> i, ret |-> bg[i].ret]

\* mutant of BgPush: the follow-up task pushed twice
BgPushTwice(w) ==
  /\ \E i \in 1..Len(bg) :
       /\ bg[i].state = "pushing"
       /\ bg[i].worker = w
       /\ HasSpace(background_queue_id)
       /\ queues' = [queues EXCEPT ![background_queue_id + 1] =
                       @ \o <<CompletionTask(i), CompletionTask(i)>>]
       /\ bg' = [bg EXCEPT ![i].state = "queued"]
  /\ UNCHANGED <<running, spin_idx, offThreadAccess, sdus>>
  /\ UNCHANGED <<lifeVars, stackVars, syncVars, callerVars>>

\* pending_tasks.push(background_queue_id, ...): blocks while the queue is full
BgPush(w) ==
  /\ \E i \in 1..Len(bg) :
       /\ bg[i].state = "pushing"
       /\ bg[i].worker = w
       /\ HasSpace(background_queue_id)
       /\ queues' = Pushed(background_queue_id, CompletionTask(i))
       /\ bg' = [bg EXCEPT ![i].state = "queued"]
  /\ UNCHANGED <<running, spin_idx, offThreadAccess, sdus>>
  /\ UNCHANGED <<lifeVars, stackVars, syncVars, callerVars>>

\* the follow-up task run by the STACK thread
ExecCellCompleted ==
  /\ epc = "task"
  /\ cur.kind \in {"rrc.cell_search_completed", "rrc.cell_select_completed"}
  /\ bg' = [bg EXCEPT ![cur.id].state = "done", ![cur.id].cbRuns = @ + 1,
                      ![cur.id].cbOn = StackThread, ![cur.id].cbRet = cur.ret,
                      ![cur.id].cbQueue = spin_idx]
  /\ offThreadAccess' = Touch(StackThread, {"rrc"})
  /\ TaskReturns
  /\ UNCHANGED <<running, queues, spin_idx, current_tti, hooks, teardown,
                 stopImplRuns, pending_stack_metrics, syncDone, sdus>>
  /\ UNCHANGED <<lifeVars, syncVars, callerVars>>

(***************************************************************************)
(* The concurrency specification: every thread, small inputs.              *)
(***************************************************************************)
\* args.pcap.enable and args.pcap.nas_enable: both off, and every setting
DefaultArgs == {[pcap |-> FALSE, nas_pcap |-> FALSE]}
AllArgs == [pcap : BOOLEAN, nas_pcap : BOOLEAN]
SpecTtis == {0}
SpecJumps == {1}

StackStep ==
  \/ RunThreadPop
  \/ RunThreadExit
  \/ ExecRunTti
  \/ ExecSyncEvent
  \/ ExecStopImplBegin
  \/ ExecStopImplStmt
  \/ ExecAttach
  \/ ExecWriteSdu
  \/ ExecGetMetrics

SyncStep(maxCalls) ==
  \/ InSync(maxCalls)
  \/ OutOfSync(maxCalls)
  \/ RunTti(SpecTtis, SpecJumps, maxCalls)
  \/ SyncPush

GwStep(lcids, maxSdus) ==
  \E lcid \in lcids, blocking \in BOOLEAN : WriteSdu(lcid, blocking, maxSdus)

CallerStep(c, maxOps) ==
  \/ StopCall(c, maxOps)
  \/ StopPush(c)
  \/ StopJoin(c)
  \/ SwitchOnCall(c, maxOps)
  \/ SwitchOnPush(c)
  \/ SwitchOff(c, maxOps)
  \/ SwitchOffPoll(c, PollBound)
  \/ SwitchOffCheck(c)
  \/ DisableData(c, maxOps)
  \/ GetMetrics(c, maxOps)
  \/ GetMetricsWait(c)

Next ==
  \/ StackInit(DefaultArgs)
  \/ StackStep
  \/ SyncStep(MaxSyncCalls)
  \/ GwStep(LcidSet, MaxSdus)
  \/ \E c \in Callers : CallerStep(c, MaxCallerOps)

Spec == Init /\ [][Next]_vars

(***************************************************************************)
(* The sync specification: the sync thread against the STACK thread, with  *)
(* one foreign caller stopping the stack.                                  *)
(***************************************************************************)
SyncNext ==
  \/ StackInit(DefaultArgs)
  \/ RunThreadPop
  \/ RunThreadExit
  \/ ExecRunTti
  \/ ExecSyncEvent
  \/ ExecStopImplBegin
  \/ ExecStopImplStmt
  \/ SyncStep(MaxSyncBurst)
  \/ StopCall("c1", 1)
  \/ StopPush("c1")
  \/ StopJoin("c1")

SpecSync == Init /\ [][SyncNext]_vars

(***************************************************************************)
(* The tick specification: run_tti(tti, tti_jump) over TTIs around the     *)
(* wrap and every jump count up to MaxJump.                                *)
(***************************************************************************)
TickTtis == {0, 1, TTI_WRAP - 1}

TickNext ==
  \/ StackInit(DefaultArgs)
  \/ RunTti(TickTtis, 0..MaxJump, MaxTickCalls)
  \/ SyncPush
  \/ RunThreadPop
  \/ ExecRunTti

SpecTick == Init /\ [][TickNext]_vars

(***************************************************************************)
(* The lifecycle specification: foreign callers starting (switch_on) and   *)
(* stopping (stop) the stack.                                              *)
(***************************************************************************)
StopNext ==
  \/ StackInit(AllArgs)
  \/ RunThreadPop
  \/ RunThreadExit
  \/ ExecStopImplBegin
  \/ ExecStopImplStmt
  \/ ExecAttach
  \/ \E c \in Callers :
       \/ StopCall(c, MaxStopOps)
       \/ StopPush(c)
       \/ StopJoin(c)
       \/ SwitchOnCall(c, MaxStopOps)
       \/ SwitchOnPush(c)

SpecStop == Init /\ [][StopNext]_vars

(***************************************************************************)
(* The uplink specification: the GW thread against the STACK thread.       *)
(***************************************************************************)
GwNext ==
  \/ StackInit(DefaultArgs)
  \/ GwStep(GwLcids, MaxGwBurst)
  \/ RunThreadPop
  \/ ExecWriteSdu

SpecGw == Init /\ [][GwNext]_vars

(***************************************************************************)
(* The query specification: two foreign callers of get_metrics() against   *)
(* the STACK thread, the stack never stopped.                              *)
(***************************************************************************)
MetricsNext ==
  \/ StackInit(DefaultArgs)
  \/ RunThreadPop
  \/ ExecGetMetrics
  \/ \E c \in Callers :
       \/ GetMetrics(c, MaxMetricsOps)
       \/ GetMetricsWait(c)

SpecMetrics == Init /\ [][MetricsNext]_vars

\* run_thread() keeps popping and running tasks while running is true, and a
\* caller blocked in wait_pop() is woken when the slot holds a snapshot
SpecMetricsFair ==
  /\ SpecMetrics
  /\ WF_vars(RunThreadPop)
  /\ WF_vars(ExecGetMetrics)
  /\ \A c \in Callers : WF_vars(GetMetricsWait(c))

(***************************************************************************)
(* The start-up specification: foreign callers using the interface before, *)
(* during and after an init() that succeeds or fails on the USIM.          *)
(***************************************************************************)
InitNext ==
  \/ StackInit(AllArgs)
  \/ RunThreadPop
  \/ RunThreadExit
  \/ ExecStopImplBegin
  \/ ExecStopImplStmt
  \/ ExecAttach
  \/ ExecGetMetrics
  \/ \E c \in Callers :
       \/ StopCall(c, MaxInitOps)
       \/ StopPush(c)
       \/ StopJoin(c)
       \/ SwitchOnCall(c, MaxInitOps)
       \/ SwitchOnPush(c)
       \/ GetMetrics(c, MaxInitOps)
       \/ GetMetricsWait(c)

SpecInit == Init /\ [][InitNext]_vars

(***************************************************************************)
(* The detach specification: one foreign caller in switch_off(), with the  *)
(* timeout of the code.                                                    *)
(***************************************************************************)
\* int cnt = 0, timeout = 5000;
DetachTimeout == 5000

DetachNext ==
  \/ StackInit(DefaultArgs)
  \/ SwitchOff("c1", MaxDetachOps)
  \/ SwitchOffPoll("c1", DetachTimeout)
  \/ SwitchOffCheck("c1")

SpecDetach == Init /\ [][DetachNext]_vars

(***************************************************************************)
(* The task-lifetime specification: the GW and sync threads producing      *)
(* while one foreign caller stops the stack.                               *)
(***************************************************************************)
TasksNext ==
  \/ StackInit(DefaultArgs)
  \/ RunThreadPop
  \/ RunThreadExit
  \/ ExecWriteSdu
  \/ ExecSyncEvent
  \/ ExecStopImplBegin
  \/ ExecStopImplStmt
  \/ GwStep(LcidSet, MaxTaskSdus)
  \/ InSync(MaxTaskSyncs)
  \/ SyncPush
  \/ StopCall("c1", 1)
  \/ StopPush("c1")
  \/ StopJoin("c1")

SpecTasks == Init /\ [][TasksNext]_vars

\* run_thread() keeps popping and running tasks until running is false
SpecTasksFair ==
  /\ SpecTasks
  /\ WF_vars(RunThreadPop)
  /\ WF_vars(RunThreadExit)
  /\ WF_vars(ExecWriteSdu)
  /\ WF_vars(ExecSyncEvent)
  /\ WF_vars(ExecStopImplBegin)
  /\ WF_vars(ExecStopImplStmt)

(***************************************************************************)
(* The fairness specification: the sync thread, the GW thread and a        *)
(* foreign caller feeding three queues, the stack never stopped.           *)
(***************************************************************************)
FairNext ==
  \/ StackInit(DefaultArgs)
  \/ RunThreadPop
  \/ ExecSyncEvent
  \/ ExecWriteSdu
  \/ ExecAttach
  \/ InSync(MaxFairSyncs)
  \/ OutOfSync(MaxFairSyncs)
  \/ SyncPush
  \/ GwStep(LcidSet, MaxFairSdus)
  \/ SwitchOnCall("c1", MaxFairOps)
  \/ SwitchOnPush("c1")

SpecFair == Init /\ [][FairNext]_vars

(***************************************************************************)
(* The background specification: RRC starting cell searches and cell       *)
(* selections from the STACK thread, the two workers, the stack running.   *)
(***************************************************************************)
BgNext ==
  \/ StackInit(DefaultArgs)
  \/ RunThreadPop
  \/ ExecAttach
  \/ ExecCellCompleted
  \/ SwitchOnCall("c1", 1)
  \/ SwitchOnPush("c1")
  \/ \E kind \in {"cell_search", "cell_select"} : StartCell(kind, MaxBgTasks)
  \/ \E w \in BgThreads :
       \/ BgPhyCall(w)
       \/ BgPhyReturns(w)
       \/ BgPush(w)

SpecBg == Init /\ [][BgNext]_vars

\* run_thread() keeps popping and running tasks, a free worker takes the next
\* request of the pool, the PHY call returns, and push() goes through once the
\* queue has room
SpecBgFair ==
  /\ SpecBg
  /\ WF_vars(RunThreadPop)
  /\ WF_vars(ExecAttach)
  /\ WF_vars(ExecCellCompleted)
  /\ \A w \in BgThreads :
       WF_vars(BgPhyCall(w)) /\ WF_vars(BgPhyReturns(w)) /\ WF_vars(BgPush(w))

(***************************************************************************)
(* Properties.                                                             *)
(***************************************************************************)

\* C1: at every moment at most one task is in execution, and the thread
\* executing it is the STACK thread, whatever the producers are doing.
Exclusivity ==
  /\ Cardinality(active) <= 1
  /\ \A a \in active : a[1] = StackThread

\* a task is in execution while the sync thread waits in push(), a caller is
\* inside an operation and an SDU is queued
ExclusivityWitness ==
  /\ active # {}
  /\ spc = "pushing"
  /\ \E c \in Callers : cpc[c] # "idle"
  /\ Queue(gw_queue_id) # <<>>

\* C2: once init() has started the STACK thread, no other thread calls into
\* a protocol layer.
OnlyStackTouchesLayers == \A a \in offThreadAccess : a[1] = StackThread

\* C3: the handlers of the sync thread's calls run in the order of the calls:
\* the i-th sync task the STACK thread runs is the i-th call, with its arguments.
SyncFifo ==
  /\ Len(syncDone) <= Len(syncCalled)
  /\ \A i \in 1..Len(syncDone) : syncDone[i] = syncCalled[i].task

\* three calls of three different kinds have all run
SyncFifoWitness ==
  /\ Len(syncDone) = 3
  /\ {syncDone[i].kind : i \in 1..3} = {"run_tti_impl", "rrc.in_sync", "rrc.out_of_sync"}

\* the hook calls the claim C4 expects of one run_tti_impl(tti, n) task: n times
\* mac.run_tti then timers.step_all, the MAC TTIs ascending to tti modulo the
\* wrap, then rrc.run_tti and nas.run_tti once each
ExpectedHooks(tti, n) ==
  [k \in 1..(2 * n + 2) |->
     IF k = 2 * n + 1 THEN RrcRunTti
     ELSE IF k = 2 * n + 2 THEN NasRunTti
     ELSE IF k % 2 = 0 THEN TimersStepAll
     ELSE MacRunTti((tti + TTI_WRAP - (n - 1) + ((k - 1) \div 2)) % TTI_WRAP)]

RECURSIVE ExpectedLog(_)
ExpectedLog(tasks) ==
  IF tasks = <<>> THEN <<>>
  ELSE ExpectedHooks(Head(tasks).tti, Head(tasks).tti_jump) \o ExpectedLog(Tail(tasks))

\* C4: every run_tti_impl(tti, n) task makes exactly the hook calls of
\* ExpectedHooks(tti, n), in that order.
TickSubdivision == hooks = ExpectedLog(syncDone)

\* a tick with the largest jump, across the TTI wrap, and one with jump 0 have run
TickSubdivisionWitness ==
  /\ \E i \in 1..Len(syncDone) : syncDone[i].tti = 1 /\ syncDone[i].tti_jump = MaxJump
  /\ \E i \in 1..Len(syncDone) : syncDone[i].tti_jump = 0

\* the STACK thread has run exactly run_tti(t-2, 1), run_tti(t-1, 1), run_tti(t, 1)
SplitRun(t) ==
  /\ Len(syncDone) = 3
  /\ \A k \in 1..3 :
       /\ syncDone[k].tti = (t + TTI_WRAP - (3 - k)) % TTI_WRAP
       /\ syncDone[k].tti_jump = 1

IsSubTickHook(h) == h.hook \in {"mac.run_tti", "timers.step_all"}

Count(log, name) == Cardinality({k \in 1..Len(log) : log[k].hook = name})

\* C5 as stated: the three calls with jump 1 make the same hook calls as the
\* one call run_tti(t, 3).
BatchingEquivalence ==
  \A t \in TickTtis : SplitRun(t) => hooks = RunTtiImpl(t, 3)

\* C5 as amended: the three calls make the same mac.run_tti and
\* timers.step_all calls as the one call, and rrc.run_tti and nas.run_tti
\* three times each where the one call makes them once each.
BatchingSubTicks ==
  \A t \in TickTtis :
    SplitRun(t) =>
      /\ SelectSeq(hooks, IsSubTickHook) = SelectSeq(RunTtiImpl(t, 3), IsSubTickHook)
      /\ Count(hooks, "rrc.run_tti") = 3
      /\ Count(hooks, "nas.run_tti") = 3
      /\ Count(RunTtiImpl(t, 3), "rrc.run_tti") = 1
      /\ Count(RunTtiImpl(t, 3), "nas.run_tti") = 1

\* the split run ending at TTI 1, which starts before the wrap
BatchingWitness == SplitRun(1)

\* where the i-th sync call is: waiting in push(), queued, running, run
SyncPlaces(i) ==
  LET t == syncCalled[i].task
      InSeq(q) == Cardinality({k \in 1..Len(q) : q[k] = t})
  IN (IF spc = "pushing" /\ i = Len(syncCalled) THEN 1 ELSE 0)
     + InSeq(queues[1]) + InSeq(queues[2]) + InSeq(queues[3]) + InSeq(queues[4])
     + InSeq(queues[5])
     + (IF cur = t THEN 1 ELSE 0)
     + InSeq(syncDone)

\* C6 as stated: every sync call made while the STACK thread runs has its
\* handler executed; seen when the STACK thread has exited.
SyncNeverLost ==
  epc = "exited" =>
    \A i \in 1..Len(syncCalled) :
      syncCalled[i].live => \E j \in 1..Len(syncDone) : syncDone[j] = syncCalled[i].task

\* C6 as amended: a sync call is never discarded and never run twice: it is
\* waiting in push(), queued, running or run, exactly one of these, and it
\* waits only while the sync queue is full.
SyncDelivered ==
  /\ \A i \in 1..Len(syncCalled) : SyncPlaces(i) = 1
  /\ Len(Queue(sync_queue_id)) <= MaxQueue

\* the sync thread waits in push() on a full sync queue while a task runs
SyncDeliveredWitness ==
  /\ spc = "pushing"
  /\ Len(Queue(sync_queue_id)) = MaxQueue
  /\ epc = "task"

\* C7: stop_impl() runs at most once, and a stop() called when running is
\* false enqueues nothing and returns at once.
StopIdempotent ==
  /\ stopImplRuns <= 1
  /\ \A c \in Callers :
       (stopRec[c].called /\ ~stopRec[c].sawRunning) =>
         /\ ~stopRec[c].pushed
         /\ stopRec[c].returned
         /\ cpc[c] \notin {"stop_push", "stop_join"}
         /\ \A q \in 1..NofQueues : \A k \in 1..Len(queues[q]) :
              queues[q][k] # [kind |-> "stop_impl", from |-> c, op |-> stopRec[c].op]

\* one caller's stop() has stopped the stack and another caller's stop() came after
StopIdempotentWitness ==
  /\ stopImplRuns = 1
  /\ epc = "exited"
  /\ \E c, d \in Callers :
       /\ stopRec[c].sawRunning /\ stopRec[c].returned
       /\ stopRec[d].called /\ stopRec[d].initOk /\ ~stopRec[d].sawRunning

\* C8: a stop() that returned after a successful init() leaves the STACK
\* thread exited and stop_impl() complete.
StopReturnsStopped ==
  \A c \in Callers :
    (stopRec[c].returned /\ stopRec[c].initOk) =>
      /\ epc = "exited"
      /\ teardown = StopImplStmts(args)

\* C9: a stop() that saw running true has its shutdown task enqueued when it
\* goes on to wait for the STACK thread.
StopAlwaysEnqueues ==
  \A c \in Callers : cpc[c] = "stop_join" => stopRec[c].pushed

\* C10: an SDU given to write_sdu() with blocking = true is never discarded.
BlockingSduNeverDropped ==
  \A i \in 1..Len(sdus) : sdus[i].blocking => sdus[i].state # "discarded"

\* C11: a write_sdu() whose try_push finds the GW queue at its capacity fails:
\* it leaves every queue as it was, and the rejected task is never queued,
\* never popped and never forwarded to PDCP; a try_push that finds room succeeds.
BackpressureStep ==
  LET n == Len(sdus)
      called == Len(sdus') = n + 1
  IN /\ (called /\ sdus'[n + 1].state = "discarded")
          => /\ Len(Queue(gw_queue_id)) = MaxQueue
             /\ queues' = queues
     /\ (called /\ sdus'[n + 1].state = "queued")
          => /\ Len(Queue(gw_queue_id)) < MaxQueue
             /\ queues' = Pushed(gw_queue_id, [kind |-> "pdcp.write_sdu", id |-> n + 1,
                                               lcid |-> sdus'[n + 1].lcid,
                                               blocking |-> sdus'[n + 1].blocking])
     /\ \A i \in 1..Len(sdus') :
          sdus'[i].state = "discarded"
            => /\ i <= n => sdus[i].state = "discarded"
               /\ cur'.kind = "pdcp.write_sdu" => cur'.id # i
               /\ \A k \in 1..Len(queues'[gw_queue_id + 1]) :
                    queues'[gw_queue_id + 1][k].id # i

Backpressure == [][BackpressureStep]_vars

\* an SDU was discarded at a full GW queue and the STACK thread went on to
\* forward an SDU accepted before it
BackpressureWitness ==
  \E i, j \in 1..Len(sdus) :
    /\ j < i
    /\ sdus[i].state = "discarded"
    /\ sdus[j].state = "forwarded"

\* the query tasks queued or in execution, and the callers blocked in wait_pop()
QueryTasks ==
  Len(SelectSeq(Queue(ue_queue_id), LAMBDA t : t.kind = "get_metrics"))
    + (IF cur.kind = "get_metrics" THEN 1 ELSE 0)

MetricsWaiters == {c \in Callers : cpc[c] = "metrics_wait"}

OneQueryInFlight == Cardinality(MetricsWaiters) <= 1

\* C14: until init() has succeeded the STACK thread does not exist and has
\* executed nothing, running is false, every stop() returns at once without
\* enqueuing anything and every switch_on() returns false; after a failed
\* init() this stays so for ever.
InitGate ==
  initState # "ok"
    => /\ epc = "off" /\ ~running
       /\ cur = NoTask /\ active = {}
       /\ stopImplRuns = 0 /\ teardown = <<>>
       /\ pending_stack_metrics = <<>> /\ offThreadAccess = {}
       /\ \A c \in Callers :
            /\ cpc[c] \in {"idle", "metrics_wait"}
            /\ metricsGot[c] = NoMetrics
            /\ ret[c] # "true"
            /\ stopRec[c].called => stopRec[c].returned /\ ~stopRec[c].pushed

\* init() has failed on the USIM; a query task enqueued by c1 stays in the ue
\* queue, c2 has called stop(), which returned at once, and then switch_on(),
\* which returned false
InitGateWitness ==
  /\ initState = "failed"
  /\ Len(Queue(ue_queue_id)) > 0
  /\ stopRec["c2"].called /\ stopRec["c2"].returned
  /\ ops["c2"] = 2 /\ cpc["c2"] = "idle" /\ ret["c2"] = "false"

SessionStops == {"usim.stop", "nas.stop", "rrc.stop"}
TransportStops == {"rlc.stop", "pdcp.stop", "mac.stop"}
SinkCloses == {"mac_pcap.close", "nas_pcap.close"}

\* the statements of stop_impl() executed before its k-th one
TornDownBefore(k) == {teardown[i] : i \in 1..(k - 1)}

\* C15: stop_impl() stops USIM, then NAS, then RRC, before any of RLC, PDCP
\* and MAC; it closes a pcap file only after all six layers are stopped, and
\* only one that args enables; running is false from before the first stop.
TeardownOrder ==
  /\ teardown # <<>> => ~running
  /\ \A i, j \in 1..Len(teardown) : i # j => teardown[i] # teardown[j]
  /\ \A k \in 1..Len(teardown) :
       /\ teardown[k] = "nas.stop" => "usim.stop" \in TornDownBefore(k)
       /\ teardown[k] = "rrc.stop" => "nas.stop" \in TornDownBefore(k)
       /\ teardown[k] \in TransportStops => SessionStops \subseteq TornDownBefore(k)
       /\ teardown[k] \in SinkCloses
            => (SessionStops \cup TransportStops) \subseteq TornDownBefore(k)
       /\ teardown[k] = "mac_pcap.close" => args.pcap
       /\ teardown[k] = "nas_pcap.close" => args.nas_pcap
  /\ (epc = "exited" /\ stopImplRuns > 0)
       => /\ (SessionStops \cup TransportStops) \subseteq TornDownBefore(Len(teardown) + 1)
          /\ args.pcap => "mac_pcap.close" \in TornDownBefore(Len(teardown) + 1)
          /\ args.nas_pcap => "nas_pcap.close" \in TornDownBefore(Len(teardown) + 1)

\* a stop_impl() with both pcap files enabled has run to its end
TeardownOrderWitness ==
  /\ args.pcap /\ args.nas_pcap
  /\ epc = "exited"
  /\ Len(teardown) = 8

\* C16: switch_off() sleeps at most DetachTimeout times; it returns false only
\* after all of them, and a call whose loop saw the data cleared within the
\* bound (cnt <= DetachTimeout when the loop is left) returns true.
DetachBound ==
  \A c \in Callers :
    /\ cnt[c] <= DetachTimeout + 1
    /\ (ops[c] > 0 /\ cpc[c] = "idle" /\ cnt[c] <= DetachTimeout) => ret[c] = "true"

\* the task of the i-th write_sdu() call, and the places it is in
SduTask(i) == [kind |-> "pdcp.write_sdu", id |-> i, lcid |-> sdus[i].lcid,
               blocking |-> sdus[i].blocking]

SduHeld(i) ==
  LET InSeq(q) == Cardinality({k \in 1..Len(q) : q[k] = SduTask(i)})
  IN InSeq(queues[1]) + InSeq(queues[2]) + InSeq(queues[3]) + InSeq(queues[4])
     + InSeq(queues[5]) + (IF cur = SduTask(i) THEN 1 ELSE 0)

\* an accepted task is held once (queued or running) until it has run, and
\* not at all afterwards
SduAtMostOnce ==
  \A i \in 1..Len(sdus) :
    /\ sdus[i].state = "queued" => SduHeld(i) = 1
    /\ sdus[i].state \in {"forwarded", "discarded"} => SduHeld(i) = 0

\* C17 as stated: every task whose push succeeded is executed exactly once,
\* also when the stack is shut down; seen when the STACK thread has exited.
AcceptedTaskExecuted ==
  /\ SduAtMostOnce
  /\ epc = "exited" => \A i \in 1..Len(sdus) : sdus[i].state # "queued"

\* C17 as amended: an accepted task is never run twice, and it is run unless
\* the shutdown task clears running first.
AcceptedTaskExecutedUnlessStopped ==
  /\ []SduAtMostOnce
  /\ \A i \in 1..MaxTaskSdus :
       (Len(sdus) >= i /\ sdus[i].state = "queued")
         ~> (~running \/ (Len(sdus) >= i /\ sdus[i].state = "forwarded"))

\* the STACK thread has exited with one accepted SDU forwarded and another
\* still in the GW queue
AcceptedTaskWitness ==
  /\ epc = "exited"
  /\ \E i, j \in 1..Len(sdus) :
       /\ sdus[i].state = "forwarded"
       /\ sdus[j].state = "queued"
       /\ SduHeld(j) = 1

\* the pops after which queue q is served at the latest, the queue served
\* last being a: its distance from a in the round-robin order
PopsUntil(a, q) == IF q = a THEN NofQueues ELSE (q - a + NofQueues) % NofQueues

\* C18: every pop that passes over a non-empty queue brings that queue
\* strictly nearer to its turn, so a non-empty queue is served after at most
\* NofQueues - 1 pops of other queues, whatever their backlog.
FairPop ==
  (epc = "loop" /\ epc' = "task")
    => /\ Queue(spin_idx') # <<>>
       /\ \A q \in 0..(NofQueues - 1) :
            (Queue(q) # <<>> /\ q # spin_idx')
              => PopsUntil(spin_idx', q) < PopsUntil(spin_idx, q)

QueueFairness == [][FairPop]_vars

\* the sync queue was served, it still has a backlog, and the task running
\* now is one of the GW queue
QueueFairnessWitness ==
  /\ epc = "task"
  /\ cur.kind = "pdcp.write_sdu"
  /\ syncDone # <<>>
  /\ Queue(sync_queue_id) # <<>>
  /\ Queue(ue_queue_id) # <<>>

\* the follow-up tasks of the i-th background request held by the dispatcher,
\* in the background queue and in any other place
BgHeld(i) ==
  LET InSeq(q) == Cardinality({k \in 1..Len(q) : q[k] = CompletionTask(i)})
  IN InSeq(Queue(background_queue_id)) + (IF cur = CompletionTask(i) THEN 1 ELSE 0)

BgMisplaced(i) ==
  \E q \in 0..(NofQueues - 1) :
    /\ q # background_queue_id
    /\ \E k \in 1..Len(Queue(q)) : Queue(q)[k] = CompletionTask(i)

BgProtocol ==
  \A i \in 1..Len(bg) :
    /\ bg[i].state # "pooled" => bg[i].phyOn \in BgThreads
    /\ bg[i].state \in {"pushing", "queued", "done"} => bg[i].ret \in PhyRets(bg[i].kind)
    /\ BgHeld(i) = (IF bg[i].state = "queued" THEN 1 ELSE 0)
    /\ ~BgMisplaced(i)
    /\ bg[i].cbRuns = (IF bg[i].state = "done" THEN 1 ELSE 0)
    /\ bg[i].state = "done"
         => /\ bg[i].cbOn = StackThread
            /\ bg[i].cbQueue = background_queue_id
            /\ bg[i].cbRet = bg[i].ret

QueryFreshness ==
  \A c \in Callers :
    (cpc[c] = "idle" /\ metricsGot[c] # NoMetrics)
      => metricsGot[c] = [by |-> c, op |-> ops[c]]

====
